---------------------------- MODULE Spec2Model ----------------------------
(***************************************************************************)
(* Bot registry of the trading platform (trading/bot_manager.py,           *)
(* TradingManager): the registry map _bots, the registry lock, the         *)
(* BotSession rows and their in-memory objects, and the background run     *)
(* threads.  Request handlers are the Callers; each run thread belongs to  *)
(* the session that start_bot created it for.                              *)
(***************************************************************************)
EXTENDS Integers, Sequences, FiniteSets, TLC

\* ------------------------------------------------------------------ bounds
NumCallers == 2
MaxSessions == 2

\* ------------------------------------------------------------------ values
Callers == 1..NumCallers

UserId == 1

Symbols == {"BTCUSDT"}

\* PairConfig.EXCHANGE_CHOICES: the exchange identifiers a PairConfig carries.
EXCHANGE_CHOICES == {"binance", "bybit", "kraken", "mexc"}

\* The exchange argument of create_bot / start_bot: absent ("none", falls back
\* to pair_config.exchange), an identifier, or an unknown one.
ExchangeArgs == {"none", "kraken_spot", "ftx"}

\* The PairConfig rows of the user: (pair_symbol, exchange).
PairConfigs == [pair_symbol : Symbols, exchange : EXCHANGE_CHOICES]

\* The rows bots are started and webhook orders executed for.
TradedConfigs == { cfg \in PairConfigs : cfg.exchange \in {"bybit", "mexc"} }

\* user.trading_profile as _get_user_exchange_credentials reads it.  attrs
\* says whether the object carries the per-exchange attributes
\* (binance_api_key, ...) at all: the UserProfile model declares only the
\* generic api_key / api_secret, so for it attrs is FALSE.  keys are the
\* exchanges whose own key is non-empty; generic is a non-empty api_key.
Profiles ==
    { [attrs |-> FALSE, keys |-> {}, generic |-> TRUE],
      [attrs |-> TRUE, keys |-> {}, generic |-> TRUE],
      [attrs |-> TRUE, keys |-> {"bybit"}, generic |-> FALSE],
      [attrs |-> TRUE, keys |-> {}, generic |-> FALSE] }

\* The user has a usable API key for the exchange.
CredentialsConfigured(p, ex) == p.generic \/ ex \in p.keys

SessionStatuses == {"starting", "running", "paused", "stopped", "error"}
NonTerminal == {"starting", "running", "paused"}
Terminal == {"stopped", "error"}

VARIABLES
    profile,      \* the user's trading profile (fixed input)
    lock,         \* self._lock: 0 when free, else the caller holding it
    bots,         \* self._bots: bot key -> instance number
    constructed,  \* per real bot key, how many adapter constructors ran
    isRunning,    \* bot.is_running of the instance of each key
    dbSessions,   \* BotSession table: session id -> row (stopped_at: set or NULL)
    objSessions,  \* the BotSession Python object of each session
    botSessions,  \* self._bot_sessions: the session ids it holds
    sessKey,      \* the bot key start_bot computed for each session
    run,          \* position of each session's run thread (_run_bot)
    pc,           \* position of each caller
    frame,        \* locals of the call a caller is in
    ret,          \* the call that returned in the step just taken, if any
    now,          \* time.time(), in seconds
    cache,        \* django cache: rate-limit key -> stored list and its expiry
    hpc,          \* position of each request handler inside _check_rate_limit
    hloc,         \* locals of _check_rate_limit: current_time, requests
    accepted,     \* current_time of every _check_rate_limit call that returned True
    raced,        \* two _check_rate_limit calls have overlapped
    lim,          \* the _check_rate_limit call that returned in the step just taken
    webhooks,     \* CustomBotWebhook rows with their subscription, by secret
    installed,    \* WebhookRateLimitMiddleware is in the MIDDLEWARE list
    posts,        \* webhook requests answered so far
    resp,         \* the webhook request answered in the step just taken
    orders,       \* the committed rows of the Order table
    orderOps,     \* calls made on orders so far
    ores,         \* the order operation that ended in the step just taken
    dpc,          \* per caller of execute_webhook_order: "idle" or "exchange"
    dloc,         \* per caller in the exchange call: its pair config and intent
    executedOrders, \* the executed orders of one (user, pair), by created_at
    perf,         \* the ManagedBotPerformance row of that user and pair
    ledgerOps,    \* calls made on the performance record so far
    lres,         \* the ledger operation that ended in the step just taken
    wpc,          \* position of each webhook request handler in the view
    wloc,         \* the request of a handler and the registration it loaded
    passed,       \* requests admitted since check_rate_limit last reset the hour
    triggers,     \* record_trigger calls completed so far
    cancelled     \* the cancel_subscription view has completed

\* The state of the webhook side (rate limiter), left alone by the registry.
limiterVars == <<now, cache, hpc, hloc, accepted, raced, lim>>

\* The state of the webhook endpoint.
gatewayVars == <<webhooks, installed, posts, resp>>

\* The state of the order pipeline.
orderVars == <<orders, orderOps, ores, dpc, dloc>>

\* The state of the performance ledger.
ledgerVars == <<executedOrders, perf, ledgerOps, lres>>

\* The state of concurrent webhook handlers and of the cancellation view.
handlerVars == <<wpc, wloc, passed, triggers, cancelled>>

others == <<limiterVars, gatewayVars, orderVars, ledgerVars, handlerVars>>

registryVars == <<profile, lock, bots, constructed, isRunning, dbSessions, objSessions,
                  botSessions, sessKey, run, pc, frame, ret>>

vars == <<registryVars, others>>

\* ------------------------------------------------------------------ keys
\* _get_bot_key: f"{user.id}_{pair_symbol}_{exchange}"; the three parts are
\* kept apart (no symbol or exchange of the model holds the separator).
BotKeyOf(user, symbol, exchange) == <<user, symbol, exchange>>

\* "if not exchange: exchange = pair_config.exchange"
EffectiveExchange(cfg, ex) == IF ex = "none" THEN cfg.exchange ELSE ex

\* Every key create_bot can be asked for.
AllKeys == { BotKeyOf(UserId, s, e) : s \in Symbols, e \in (ExchangeArgs \cup EXCHANGE_CHOICES) \ {"none"} }

Sids == 1..Len(dbSessions)

NoFrame == [op |-> "none", key |-> <<>>, sid |-> 0]
NoRet == [op |-> "none", key |-> <<>>, sid |-> 0, outcome |-> "none", val |-> 0]

\* ------------------------------------------------------------------ create_bot
\* _get_user_exchange_credentials: any exception while reading the profile
\* (here: a missing per-exchange attribute) becomes ValueError; otherwise a
\* dict with the entries binance, bybit and mexc only.
CredentialExchanges == {"binance", "bybit", "mexc"}

CredentialsReadable(p) == p.attrs

\* credentials[exchange]['api_key'] = profile.<ex>_api_key or profile.api_key
ApiKeyPresent(p, ex) == ex \in CredentialExchanges /\ (ex \in p.keys \/ p.generic)

\* The adapter constructors as create_bot calls them (api_key=, api_secret=).
\* BinanceBots.__init__ and KrakenBots.__init__ take (user, pair_config,
\* credentials) and reject the keyword api_key with TypeError.
ConstructorAcceptsKeywords(ex) == ex \notin {"binance", "kraken_spot"}

\* self._bots.get(bot_key) is not None
BotExists(key) == key \in DOMAIN bots

RegisteredUnchecked(key) == FALSE

\* create_bot: "if bot_key in self._bots", evaluated with the lock held.
Registered(key) == key \in DOMAIN bots

\* What the body of create_bot does for (key, exchange) under the lock.  The
\* outcomes name what the call returns or raises: "existing" and
\* "constructed" return the instance; "CredentialsMissing" is ValueError
\* ("... API keys not configured", "User exchange credentials not
\* configured"), "UnsupportedExchange" is ValueError("Unsupported exchange"),
\* "TypeError" is what the adapter constructor raises.
CreateBotOutcome(key, ex) ==
    IF Registered(key) THEN "existing"
    ELSE IF ~CredentialsReadable(profile) THEN "CredentialsMissing"
    ELSE IF ex \in {"binance", "bybit", "mexc", "kraken_spot"}
         THEN IF ~ApiKeyPresent(profile, ex) THEN "CredentialsMissing"
              ELSE IF ConstructorAcceptsKeywords(ex) THEN "constructed"
              ELSE "TypeError"
         ELSE "UnsupportedExchange"

CreateBotOk(out) == out \in {"existing", "constructed", "found"}

\* A create_bot that registers the key before the bot is built.
BotsRegisteredFirst(key, ex) ==
    [k \in DOMAIN bots \cup {key} |-> IF k = key /\ k \notin DOMAIN bots
                                      THEN constructed[key] + 1 ELSE bots[k]]

\* The registry after the body of create_bot.
BotsAfterCreate(key, ex) ==
    IF CreateBotOutcome(key, ex) = "constructed"
    THEN [k \in DOMAIN bots \cup {key} |-> IF k = key THEN constructed[key] + 1 ELSE bots[k]]
    ELSE bots

ConstructedAfterCreate(key, ex) ==
    IF CreateBotOutcome(key, ex) = "constructed"
    THEN [constructed EXCEPT ![key] = @ + 1]
    ELSE constructed

InstanceAfterCreate(key, ex) ==
    IF CreateBotOk(CreateBotOutcome(key, ex)) THEN BotsAfterCreate(key, ex)[key] ELSE 0

Init ==
    /\ profile \in Profiles
    /\ lock = 0
    /\ bots = <<>>
    /\ constructed = [k \in AllKeys |-> 0]
    /\ isRunning = [k \in AllKeys |-> FALSE]
    /\ dbSessions = <<>>
    /\ objSessions = <<>>
    /\ botSessions = {}
    /\ sessKey = <<>>
    /\ run = <<>>
    /\ pc = [c \in Callers |-> "idle"]
    /\ frame = [c \in Callers |-> NoFrame]
    /\ ret = NoRet

\* The call of caller c returns (or raises) in this step.
Returns(c, op, key, sid, out, val) ==
    /\ pc' = [pc EXCEPT ![c] = "idle"]
    /\ frame' = [frame EXCEPT ![c] = NoFrame]
    /\ ret' = [op |-> op, key |-> key, sid |-> sid, outcome |-> out, val |-> val]

\* create_bot called by a request handler.  The body runs with the lock
\* held, so the call is one step taken once the lock is free.
CreateBot(c) ==
    \E cfg \in PairConfigs, exa \in ExchangeArgs :
        LET ex == EffectiveExchange(cfg, exa)
            key == BotKeyOf(UserId, cfg.pair_symbol, ex)
        IN  /\ pc[c] = "idle"
            /\ lock = 0
            /\ bots' = BotsAfterCreate(key, ex)
            /\ constructed' = ConstructedAfterCreate(key, ex)
            /\ Returns(c, "create_bot", key, 0, CreateBotOutcome(key, ex),
                       InstanceAfterCreate(key, ex))
            /\ UNCHANGED <<others, profile, lock, isRunning, dbSessions, objSessions,
                           botSessions, sessKey, run>>

\* execute_webhook_order up to the bot it dispatches to: get_bot reads the
\* registry without the lock; a missing bot is created through create_bot.
ExecuteWebhookOrder(c) ==
    \E cfg \in TradedConfigs :
        LET key == BotKeyOf(UserId, cfg.pair_symbol, cfg.exchange)
        IN  /\ pc[c] = "idle"
            /\ IF BotExists(key)
               THEN Returns(c, "webhook", key, 0, "found", bots[key])
               ELSE /\ pc' = [pc EXCEPT ![c] = "create_bot"]
                    /\ frame' = [frame EXCEPT ![c] = [op |-> "webhook", key |-> key, sid |-> 0]]
                    /\ ret' = NoRet
            /\ UNCHANGED <<others, profile, lock, bots, constructed, isRunning, dbSessions,
                           objSessions, botSessions, sessKey, run>>

\* BotSession.objects.create(status='starting'), the entry in _bot_sessions
\* and bot_thread.start(): the session of caller c for bot key `key`.
SessionCreated(c, key) ==
    LET sid == Len(dbSessions) + 1
    IN  /\ Len(dbSessions) < MaxSessions
        /\ dbSessions' = Append(dbSessions, [user |-> UserId, pair_symbol |-> key[2],
                                             status |-> "starting", stopped_at |-> FALSE])
        /\ objSessions' = Append(objSessions, [status |-> "starting", stopped_at |-> FALSE])
        /\ botSessions' = botSessions \cup {sid}
        /\ sessKey' = Append(sessKey, key)
        /\ run' = Append(run, "spawned")
        /\ frame' = [frame EXCEPT ![c] = [op |-> "start_bot", key |-> key, sid |-> sid]]
        /\ pc' = [pc EXCEPT ![c] = "sb_start_session"]
        /\ ret' = NoRet

\* start_bot: take the lock and look the bot up.  A missing bot is created
\* through create_bot, called with the lock held; with the bot at hand the
\* session is created and its run thread started.
StartBot(c) ==
    \E cfg \in TradedConfigs, exa \in {"none"} :
        LET ex == EffectiveExchange(cfg, exa)
            key == BotKeyOf(UserId, cfg.pair_symbol, ex)
        IN  /\ pc[c] = "idle"
            /\ lock = 0
            /\ lock' = c
            /\ IF BotExists(key)
               THEN SessionCreated(c, key)
               ELSE /\ pc' = [pc EXCEPT ![c] = "create_bot"]
                    /\ frame' = [frame EXCEPT ![c] = [op |-> "start_bot", key |-> key, sid |-> 0]]
                    /\ ret' = NoRet
                    /\ UNCHANGED <<dbSessions, objSessions, botSessions, sessKey, run>>
            /\ UNCHANGED <<others, profile, bots, constructed, isRunning>>

\* create_bot called from execute_webhook_order or from start_bot: the caller
\* waits at "with self._lock" until the lock is free.  threading.Lock is not
\* reentrant, so a caller that holds the lock itself (start_bot) waits for ever.
\* When the call made by start_bot returns a bot, start_bot goes on to create
\* the session.
CreateBotNested(c) ==
    LET key == frame[c].key
        ex == key[3]
        out == CreateBotOutcome(key, ex)
    IN  /\ pc[c] = "create_bot"
        /\ lock = 0
        /\ bots' = BotsAfterCreate(key, ex)
        /\ constructed' = ConstructedAfterCreate(key, ex)
        /\ IF frame[c].op = "start_bot" /\ CreateBotOk(out)
           THEN SessionCreated(c, key)
           ELSE /\ Returns(c, frame[c].op, key, 0, out, InstanceAfterCreate(key, ex))
                /\ UNCHANGED <<dbSessions, objSessions, botSessions, sessKey, run>>
        /\ UNCHANGED <<others, profile, lock, isRunning>>

\* BotSession.start_session, first statement: self.status = 'running'.
StartSessionAssign(c) ==
    /\ pc[c] = "sb_start_session"
    /\ objSessions' = [objSessions EXCEPT ![frame[c].sid].status = "running"]
    /\ pc' = [pc EXCEPT ![c] = "sb_save"]
    /\ ret' = NoRet
    /\ UNCHANGED <<others, profile, lock, bots, constructed, isRunning, dbSessions,
                   botSessions, sessKey, run, frame>>

\* Model.save(): every field of the object is written to its row.
SavedRow(row, obj) == [row EXCEPT !.status = obj.status, !.stopped_at = obj.stopped_at]

\* BotSession.start_session, self.save(); then start_bot returns the session
\* id and leaves the lock.
StartSessionSave(c) ==
    LET sid == frame[c].sid
    IN  /\ pc[c] = "sb_save"
        /\ dbSessions' = [dbSessions EXCEPT ![sid] = SavedRow(@, objSessions[sid])]
        /\ lock' = 0
        /\ Returns(c, "start_bot", frame[c].key, sid, "session", sid)
        /\ UNCHANGED <<others, profile, bots, constructed, isRunning, objSessions,
                       botSessions, sessKey, run>>

\* The targets stop_bot is called with: a pair symbol and an exchange, or,
\* from TradingBotView.delete with a session id, None and None.
StopTargets == (Symbols \X {"bybit", "mexc"}) \cup {<<"None", "None">>}

\* BotSession.objects.filter(user=user, pair_config__pair_symbol=pair_symbol,
\*                           status='running')
RunningRowsOf(user, symbol) ==
    { s \in Sids : /\ dbSessions[s].user = user
                   /\ dbSessions[s].pair_symbol = symbol
                   /\ dbSessions[s].status = "running" }

\* stop_bot: take the lock and look the bot up.  No bot: a warning, nothing
\* else.  Otherwise bot.stop_bot() clears is_running and then either the
\* session named by session_id is stopped through its object (stop_session:
\* status and stopped_at are set, saved in the next step) or the running rows
\* of the user and pair symbol are updated in one query.
StopBot(c) ==
    \E tgt \in StopTargets, sidArg \in 0..Len(dbSessions) :
        LET key == BotKeyOf(UserId, tgt[1], tgt[2])
        IN  /\ pc[c] = "idle"
            /\ lock = 0
            /\ tgt = <<"None", "None">> => sidArg # 0
            /\ IF ~BotExists(key)
               THEN /\ Returns(c, "stop_bot", key, sidArg, "not_found", 0)
                    /\ UNCHANGED <<lock, isRunning, dbSessions, objSessions>>
               ELSE /\ isRunning' = [isRunning EXCEPT ![key] = FALSE]
                    /\ IF sidArg # 0 /\ sidArg \in botSessions
                       THEN /\ lock' = c
                            /\ objSessions' = [objSessions EXCEPT ![sidArg].status = "stopped",
                                                                  ![sidArg].stopped_at = TRUE]
                            /\ pc' = [pc EXCEPT ![c] = "stop_save"]
                            /\ frame' = [frame EXCEPT ![c] = [op |-> "stop_bot", key |-> key,
                                                              sid |-> sidArg]]
                            /\ ret' = NoRet
                            /\ UNCHANGED dbSessions
                       ELSE /\ dbSessions' =
                                [s \in Sids |->
                                    IF s \in RunningRowsOf(UserId, tgt[1])
                                    THEN [dbSessions[s] EXCEPT !.status = "stopped",
                                                               !.stopped_at = TRUE]
                                    ELSE dbSessions[s]]
                            /\ Returns(c, "stop_bot", key, sidArg, "stopped", 0)
                            /\ UNCHANGED <<lock, objSessions>>
            /\ UNCHANGED <<others, profile, bots, constructed, botSessions, sessKey, run>>

\* BotSession.stop_session, self.save(); del self._bot_sessions[session_id];
\* stop_bot leaves the lock.
StopSessionSave(c) ==
    LET sid == frame[c].sid
    IN  /\ pc[c] = "stop_save"
        /\ dbSessions' = [dbSessions EXCEPT ![sid] = SavedRow(@, objSessions[sid])]
        /\ botSessions' = botSessions \ {sid}
        /\ lock' = 0
        /\ Returns(c, "stop_bot", frame[c].key, sid, "stopped", sid)
        /\ UNCHANGED <<others, profile, bots, constructed, isRunning, objSessions,
                       sessKey, run>>

\* ------------------------------------------------------------------ run thread
\* _run_bot calls bot.startBot(): self.is_running = True.
RunBegin(s) ==
    /\ run[s] = "spawned"
    /\ isRunning' = [isRunning EXCEPT ![sessKey[s]] = TRUE]
    /\ run' = [run EXCEPT ![s] = "loop"]
    /\ ret' = NoRet
    /\ UNCHANGED <<others, profile, lock, bots, constructed, dbSessions, objSessions,
                   botSessions, sessKey, pc, frame>>

\* The loop reads is_running as False and ends: finally: is_running = False;
\* startBot and _run_bot return.
RunExit(s) ==
    /\ run[s] = "loop"
    /\ ~isRunning[sessKey[s]]
    /\ run' = [run EXCEPT ![s] = "returned"]
    /\ ret' = NoRet
    /\ UNCHANGED <<others, profile, lock, bots, constructed, isRunning, dbSessions,
                   objSessions, botSessions, sessKey, pc, frame>>

\* A failing loop that took every bot of the registry down with it.
RunRaiseStopsEveryBot(s) ==
    LET failed == [objSessions[s] EXCEPT !.status = "error"]
    IN  /\ run[s] = "loop"
        /\ isRunning[sessKey[s]]
        /\ isRunning' = [k \in AllKeys |-> FALSE]
        /\ objSessions' = [objSessions EXCEPT ![s] = failed]
        /\ dbSessions' = [dbSessions EXCEPT ![s] = SavedRow(@, failed)]
        /\ run' = [run EXCEPT ![s] = "failed"]
        /\ ret' = NoRet
        /\ UNCHANGED <<others, profile, lock, bots, constructed, botSessions, sessKey, pc, frame>>

\* An iteration of the loop raises: finally: is_running = False; the
\* exception reaches _run_bot, whose handler sets bot_session.status = 'error'
\* and saves the object.  The handler writes this session only and is taken
\* in the same step.
RunRaise(s) ==
    LET failed == [objSessions[s] EXCEPT !.status = "error"]
    IN  /\ run[s] = "loop"
        /\ isRunning[sessKey[s]]
        /\ isRunning' = [isRunning EXCEPT ![sessKey[s]] = FALSE]
        /\ objSessions' = [objSessions EXCEPT ![s] = failed]
        /\ dbSessions' = [dbSessions EXCEPT ![s] = SavedRow(@, failed)]
        /\ run' = [run EXCEPT ![s] = "failed"]
        /\ ret' = NoRet
        /\ UNCHANGED <<others, profile, lock, bots, constructed, botSessions, sessKey, pc, frame>>

\* ------------------------------------------------------------------ rate limiter
\* WebhookRateLimitMiddleware._check_rate_limit (subscriptions/middleware.py):
\* the sliding window of request times kept in the cache under
\* "webhook_rate_limit:<secret>".

\* settings.WEBHOOK_RATE_LIMIT, the number of requests a window admits.
WEBHOOK_RATE_LIMIT == 2

\* window_seconds
WindowSeconds == 60

\* Time advances in steps of TickSeconds up to MaxTime.
TickSeconds == 20
MaxTime == 120

\* The _check_rate_limit calls of a behaviour.
MaxCalls == 3

\* The webhook secrets requests arrive with: the secret of an active
\* registration, of a deactivated one, and one no registration has.
Secrets == {"live", "inactive", "unknown"}

\* The secret the concurrent limiter calls share.
LimiterKey == "live"

NoEntry == [list |-> <<>>, expiry |-> 0]
NoLocals == [t |-> 0, requests |-> <<>>]
NoLim == [op |-> "none", key |-> "", t |-> 0, ok |-> FALSE]

\* cache.get(cache_key, []): the stored list unless its expiry has passed.
CacheGet(key) == IF now < cache[key].expiry THEN cache[key].list ELSE <<>>

PruneNothing(requests, t) == requests

\* [req_time for req_time in requests if current_time - req_time < window_seconds]
Prune(requests, t) == SelectSeq(requests, LAMBDA r : t - r < WindowSeconds)

\* len(requests) >= rate_limit
LimitReached(requests) == Len(requests) >= WEBHOOK_RATE_LIMIT

CacheSetUnpruned(key, requests) ==
    [cache EXCEPT ![key] = [list |-> cache[key].list \o requests,
                            expiry |-> now + WindowSeconds]]

\* cache.set(cache_key, requests, window_seconds)
CacheSet(key, requests) ==
    [cache EXCEPT ![key] = [list |-> requests, expiry |-> now + WindowSeconds]]

LimiterIdle ==
    /\ now = 0
    /\ cache = [k \in Secrets |-> NoEntry]
    /\ hpc = [c \in Callers |-> "idle"]
    /\ hloc = [c \in Callers |-> NoLocals]
    /\ accepted = <<>>
    /\ raced = FALSE
    /\ lim = NoLim

\* ------------------------------------------------------------------ webhook gateway
\* TradingViewWebhookView.post behind WebhookRateLimitMiddleware, with
\* validate_webhook_request, CustomBotWebhook.check_rate_limit / record_trigger
\* and WebhookPayloadSerializer.

\* subscription.plan.webhook_requests_per_hour
RequestsPerHour == 2

\* timezone.timedelta(hours=1), in seconds
HourSeconds == 3600

\* The webhook requests of a behaviour.
MaxPosts == 3

\* The clock steps between the requests of a behaviour.
GatewayTicks == 2

\* The secrets that have a CustomBotWebhook row.
RegisteredSecrets == {"live", "inactive"}

\* get_client_ip(request): an address on webhook.allowed_ips, or another one.
ClientIps == {"listed", "other"}

\* webhook.allowed_ips
AllowedIps == {"listed"}

\* request.data: quantity and price in units of the smallest step, price 0
\* standing for an absent price.
Payloads ==
    { [action |-> "buy", ticker |-> TRUE, quantity |-> 1, price |-> 1],
      [action |-> "hold", ticker |-> TRUE, quantity |-> 1, price |-> 0],
      [action |-> "buy", ticker |-> FALSE, quantity |-> 1, price |-> 0],
      [action |-> "buy", ticker |-> TRUE, quantity |-> 0, price |-> 0],
      [action |-> "sell", ticker |-> TRUE, quantity |-> 1, price |-> -1] }

NoPayload == [action |-> "", ticker |-> FALSE, quantity |-> 0, price |-> 0]

NoResp == [op |-> "none", secret |-> "", ip |-> "", payload |-> NoPayload,
           validated |-> FALSE, admitted |-> FALSE, reason |-> "",
           code |-> 0, retry_after |-> 0, order_id |-> 0]

\* WebhookPayloadSerializer.is_valid(): ChoiceField action, required ticker,
\* validate_quantity, validate_price (price not required).
PayloadValid(p) ==
    /\ p.action \in {"buy", "sell"}
    /\ p.ticker
    /\ p.quantity > 0
    /\ p.price >= 0

SubscriptionStatusOnly(w) == w.sub_status = "active"

\* UserSubscription.is_currently_active
IsCurrentlyActive(w) == w.sub_status = "active" /\ now <= w.sub_end

\* CustomBotWebhook.check_rate_limit, the hourly reset it saves.
AfterReset(w) ==
    IF w.rate_limit_reset # 0 /\ now > w.rate_limit_reset
    THEN [w EXCEPT !.rate_limit_count = 0, !.rate_limit_reset = now + HourSeconds]
    ELSE w

\* CustomBotWebhook.check_rate_limit, its verdict.
CheckRateLimit(w) == AfterReset(w).rate_limit_count < RequestsPerHour

\* validate_webhook_request: the error message, or "" when the request is
\* admitted (True, webhook, None).
ValidateWebhookRequest(s, ip) ==
    IF s \notin DOMAIN webhooks THEN "Invalid webhook secret"
    ELSE IF ~webhooks[s].is_active THEN "Webhook is inactive"
    ELSE IF ~CheckRateLimit(webhooks[s]) THEN "Rate limit exceeded"
    ELSE IF webhooks[s].allow_ip_whitelist /\ ip \notin AllowedIps
         THEN "IP address not allowed"
    ELSE IF ~IsCurrentlyActive(webhooks[s]) THEN "Subscription not active"
    ELSE ""

\* The rows after validate_webhook_request: check_rate_limit is reached for a
\* known, active webhook only, and saves its reset.
WebhooksAfterValidate(s) ==
    IF s \in DOMAIN webhooks /\ webhooks[s].is_active
    THEN [webhooks EXCEPT ![s] = AfterReset(@)]
    ELSE webhooks

\* last_triggered of a registration that was never triggered (NULL).
Never == -1

\* record_trigger leaving successful_triggers alone.
RecordTriggerTotalOnly(w, success, ip) ==
    [w EXCEPT !.last_triggered = now,
              !.total_triggers = @ + 1,
              !.last_ip_address = ip,
              !.rate_limit_count = @ + 1,
              !.rate_limit_reset = IF @ = 0 THEN now + HourSeconds ELSE @]

\* record_trigger counting successful requests only.
RecordTriggerIfSuccess(w, success, ip) ==
    IF success THEN [RecordTriggerTotalOnly(w, success, ip)
                        EXCEPT !.successful_triggers = @ + 1]
    ELSE w

\* CustomBotWebhook.record_trigger: last_triggered, total_triggers += 1,
\* successful_triggers += 1 on success, last_ip_address (the caller's address
\* is never empty), rate_limit_count += 1, the reset time set when there is
\* none; save().
RecordTrigger(w, success, ip) ==
    [w EXCEPT !.last_triggered = now,
              !.total_triggers = @ + 1,
              !.successful_triggers = IF success THEN @ + 1 ELSE @,
              !.last_ip_address = ip,
              !.rate_limit_count = @ + 1,
              !.rate_limit_reset = IF @ = 0 THEN now + HourSeconds ELSE @]

WebhookRow(active, whitelist, status, end, reset) ==
    [is_active |-> active, allow_ip_whitelist |-> whitelist, sub_status |-> status,
     sub_end |-> end, rate_limit_count |-> 0, rate_limit_reset |-> reset,
     total_triggers |-> 0, successful_triggers |-> 0,
     last_triggered |-> Never, last_ip_address |-> ""]

GatewayIdle ==
    /\ webhooks = [s \in RegisteredSecrets |->
                      WebhookRow(s = "live", FALSE, "active", MaxTime, 0)]
    /\ installed = FALSE
    /\ posts = 0
    /\ resp = NoResp

\* ------------------------------------------------------------------ orders
\* TradingManager.execute_webhook_order, Order.execute_order / cancel_order
\* and BaseBot.validate_order_params.

\* pair_config.min_order_size and max_order_size, in units of the smallest step.
MinOrderSize == 1
MaxOrderSize == 2

\* The rows of the Order table and the calls made on them in a behaviour.
MaxOrders == 2
MaxOrderOps == 3

\* Order.STATUS_CHOICES
ORDER_STATUSES == {"pending", "executed", "cancelled", "failed"}
TerminalOrderStatuses == {"executed", "cancelled", "failed"}

\* (action, quantity, price) as execute_webhook_order receives them; price 0
\* stands for None (market order).
Intents ==
    { [action |-> "buy", quantity |-> MinOrderSize, price |-> 0],
      [action |-> "sell", quantity |-> MaxOrderSize, price |-> 1],
      [action |-> "hold", quantity |-> MinOrderSize, price |-> 0],
      [action |-> "buy", quantity |-> 0, price |-> 0],
      [action |-> "buy", quantity |-> MaxOrderSize + 1, price |-> 0],
      [action |-> "sell", quantity |-> MinOrderSize, price |-> -1] }

NoIntent == [action |-> "", quantity |-> 0, price |-> 0]

\* What the exchange call of an adapter does: a fill; a failure the adapter
\* catches and returns as {'success': False, 'error': ...}
\* (BinanceBots.execute_market_order); an exception it lets through.
AdapterOutcomes == {"filled", "error_result", "raises"}
AdapterFailures == {"error_result", "raises"}

\* BaseBot.validate_order_params: the ValueError it raises, "" for none.
ValidateOrderParams(intent) ==
    IF intent.action \notin {"buy", "sell"} THEN "Action must be 'buy' or 'sell'"
    ELSE IF intent.quantity <= 0 THEN "Quantity must be greater than 0"
    ELSE IF intent.price # 0 /\ intent.price <= 0 THEN "Price must be greater than 0"
    ELSE IF intent.quantity < MinOrderSize THEN "Quantity below minimum"
    ELSE IF intent.quantity > MaxOrderSize THEN "Quantity above maximum"
    ELSE ""

\* Order.objects.create(..., status='pending'): the execution fields NULL (0).
PendingOrder ==
    [status |-> "pending", executed_price |-> 0, executed_quantity |-> 0,
     exchange_order_id |-> 0, executed_at |-> 0]

\* Order.execute_order: status, a new executed_at, and each execution field
\* that is given and truthy; save().
ExecutedOrder(row, price, quantity, id) ==
    [row EXCEPT !.status = "executed",
                !.executed_at = @ + 1,
                !.executed_price = IF price # 0 THEN price ELSE @,
                !.executed_quantity = IF quantity # 0 THEN quantity ELSE @,
                !.exchange_order_id = IF id # 0 THEN id ELSE @]

\* Order.cancel_order
CancelledOrder(row) == [row EXCEPT !.status = "cancelled"]

\* The except branch saving the order without setting its status.
FailedOrderStatusKept(row) == row

\* execute_webhook_order, the except branch: order.status = 'failed'; save().
\* The atomic block has rolled the created row back; save() finds no row to
\* update and inserts the object.
FailedOrder(row) == [row EXCEPT !.status = "failed"]

NoOres == [op |-> "none", idx |-> 0, intent |-> NoIntent, dispatch |-> "none",
           raised |-> FALSE, code |-> 0]

\* A caller that is not inside execute_webhook_order has no locals.
NoDispatch == [cfg |-> [pair_symbol |-> "", exchange |-> ""], intent |-> NoIntent]

OrdersIdle ==
    /\ orders = <<>>
    /\ orderOps = 0
    /\ ores = NoOres
    /\ dpc = [c \in Callers |-> "idle"]
    /\ dloc = [c \in Callers |-> NoDispatch]

\* ------------------------------------------------------------------ ledger
\* calculate_managed_bot_performance, calculate_profit_share,
\* update_managed_bot_performance and ManagedBotPerformance.
\* Prices are in USDT, quantities in halves of a unit, amounts in cents.

\* The executed orders of a history and the calls on the record in a behaviour.
MaxHistory == 3
MaxLedgerOps == 3

\* One half unit at a price of 1 USDT, in cents.
HalfUnitCents == 50

\* initial_investment of the record (1000 USDT) and the plan's
\* profit_share_percentage.
InitialInvestment == 100000
ProfitSharePercentage == 25

\* Executed orders of the pair: price and quantity as requested (price 0 for
\* a market order), executed_price and executed_quantity as filled (0 when
\* the fill left them NULL).
LedgerOrders ==
    { [action |-> "buy", price |-> 0, quantity |-> 2,
       executed_price |-> 100, executed_quantity |-> 2],
      [action |-> "buy", price |-> 110, quantity |-> 2,
       executed_price |-> 0, executed_quantity |-> 0],
      [action |-> "sell", price |-> 0, quantity |-> 3,
       executed_price |-> 120, executed_quantity |-> 3],
      [action |-> "sell", price |-> 100, quantity |-> 5,
       executed_price |-> 105, executed_quantity |-> 5] }

\* The amounts record_trade is called with.
TradeAmounts == {-500, 0, 1000}

\* ManagedBotPerformanceCreateSerializer.create: current_balance set to the
\* initial investment, every other amount and counter at its default 0.
NewPerformance(paid) ==
    [initial_investment |-> InitialInvestment, current_balance |-> InitialInvestment,
     total_profit |-> 0, total_loss |-> 0, net_profit |-> 0, profit_percentage |-> 0,
     profit_share_owed |-> 0, profit_share_paid |-> paid,
     total_trades |-> 0, winning_trades |-> 0, losing_trades |-> 0, win_rate |-> 0]

NoLres == [op |-> "none", action |-> "", failed |-> FALSE]

LedgerIdle ==
    /\ executedOrders = <<>>
    /\ perf = NewPerformance(0)
    /\ ledgerOps = 0
    /\ lres = NoLres

\* What a handler holds between validate_webhook_request and record_trigger:
\* its request and the CustomBotWebhook instance the lookup returned.
NoLoaded == [secret |-> "", ip |-> "", payload |-> NoPayload,
             row |-> WebhookRow(FALSE, FALSE, "", 0, 0)]

HandlersIdle ==
    /\ wpc = [c \in Callers |-> "idle"]
    /\ wloc = [c \in Callers |-> NoLoaded]
    /\ passed = 0
    /\ triggers = 0
    /\ cancelled = FALSE

OthersIdle == LimiterIdle /\ GatewayIdle /\ OrdersIdle /\ LedgerIdle /\ HandlersIdle

\* The clock moves on.
Tick ==
    /\ now + TickSeconds <= MaxTime
    /\ now' = now + TickSeconds
    /\ lim' = NoLim
    /\ UNCHANGED <<registryVars, gatewayVars, orderVars, ledgerVars, handlerVars, cache, hpc, hloc, accepted, raced>>

\* _check_rate_limit, lines 73-77: current_time = time.time() and
\* requests = cache.get(cache_key, []).
CheckRateLimitRead(c) ==
    /\ hpc[c] = "idle"
    /\ Len(accepted) < MaxCalls
    /\ hloc' = [hloc EXCEPT ![c] = [t |-> now, requests |-> CacheGet(LimiterKey)]]
    /\ hpc' = [hpc EXCEPT ![c] = "decide"]
    /\ raced' = (raced \/ \E d \in Callers \ {c} : hpc[d] = "decide")
    /\ lim' = NoLim
    /\ UNCHANGED <<registryVars, gatewayVars, orderVars, ledgerVars, handlerVars, now, cache, accepted>>

\* _check_rate_limit, lines 80-92: prune, compare with the limit, and either
\* return False or append current_time, store the list and return True.
CheckRateLimitDecide(c) ==
    LET t == hloc[c].t
        pruned == Prune(hloc[c].requests, t)
    IN  /\ hpc[c] = "decide"
        /\ IF LimitReached(pruned)
           THEN /\ lim' = [op |-> "check", key |-> LimiterKey, t |-> t, ok |-> FALSE]
                /\ UNCHANGED <<cache, accepted>>
           ELSE /\ cache' = CacheSet(LimiterKey, Append(pruned, t))
                /\ accepted' = Append(accepted, t)
                /\ lim' = [op |-> "check", key |-> LimiterKey, t |-> t, ok |-> TRUE]
        /\ hpc' = [hpc EXCEPT ![c] = "idle"]
        /\ hloc' = [hloc EXCEPT ![c] = NoLocals]
        /\ UNCHANGED <<registryVars, gatewayVars, orderVars, ledgerVars, handlerVars, now, raced>>

\* The registry as constructed, with a profile that carries usable keys.
RegistryIdle == Init /\ CredentialsReadable(profile) /\ profile.generic

LimiterNext ==
    \/ Tick
    \/ \E c \in Callers : CheckRateLimitRead(c)
    \/ \E c \in Callers : CheckRateLimitDecide(c)

LimiterInit == RegistryIdle /\ LimiterIdle /\ GatewayIdle /\ OrdersIdle /\ LedgerIdle /\ HandlersIdle

SpecLimiter == LimiterInit /\ [][LimiterNext]_vars

\* execute_webhook_order, how far the call gets: the error of create_bot, the
\* ValueError of validate_order_params (first statement of the adapter's
\* execute_market_order / execute_limit_order), else what the exchange call did.
DispatchOf(cfg, intent, adapter) ==
    LET key == BotKeyOf(UserId, cfg.pair_symbol, cfg.exchange)
        out == IF BotExists(key) THEN "found" ELSE CreateBotOutcome(key, cfg.exchange)
    IN  IF ~CreateBotOk(out) THEN out
        ELSE IF ValidateOrderParams(intent) # "" THEN "ValueError"
        ELSE adapter

\* execute_webhook_order ends in its except branch and raises again unless
\* the adapter returned a result (a fill or {'success': False}).
DispatchRaised(dispatch) == dispatch \notin {"filled", "error_result"}

\* The row the call leaves: the result is passed to execute_order whatever
\* it says (result.get(...) is None for a failure result); the except branch
\* saves the order as failed.
OrderAfterDispatch(dispatch, intent) ==
    IF DispatchRaised(dispatch) THEN FailedOrder(PendingOrder)
    ELSE IF dispatch = "filled"
         THEN ExecutedOrder(PendingOrder, 1, intent.quantity, 1)
         ELSE ExecutedOrder(PendingOrder, 0, 0, 0)

\* What the caller of execute_webhook_order sees: _execute_trade turns an
\* exception into success False (HTTP 400), a return into success True (200).
OresOf(idx, intent, dispatch) ==
    [op |-> "webhook_order", idx |-> idx, intent |-> intent, dispatch |-> dispatch,
     raised |-> DispatchRaised(dispatch),
     code |-> IF DispatchRaised(dispatch) THEN 400 ELSE 200]

\* webhook.pair_config of the registration.
WebhookPairConfig == [pair_symbol |-> "BTCUSDT", exchange |-> "bybit"]

\* _execute_trade: action, quantity and price of the validated payload, an
\* absent (or zero) price meaning a market order.
IntentOf(p) == [action |-> p.action, quantity |-> p.quantity, price |-> p.price]

\* The answer of the endpoint to a request.
Answer(s, ip, p, validated, admitted, reason, code, retry, order_id) ==
    /\ resp' = [op |-> "post", secret |-> s, ip |-> ip, payload |-> p,
                validated |-> validated, admitted |-> admitted,
                reason |-> reason, code |-> code, retry_after |-> retry,
                order_id |-> order_id]
    /\ posts' = posts + 1

\* A request that ends before _execute_trade touches neither the Order table
\* nor the bot registry.
NoTrade ==
    /\ ores' = NoOres
    /\ UNCHANGED <<orders, bots, constructed>>

\* TradingViewWebhookView.post for an admitted or rejected request: 401 for
\* every rejection of validate_webhook_request, 400 for a payload the
\* serializer rejects, else _execute_trade (execute_webhook_order with the
\* registration's pair config, the exchange's behaviour an input) and
\* record_trigger with its success, 200 with the order's id or 400.
ViewPost(s, ip, p, adapter) ==
    LET reason == ValidateWebhookRequest(s, ip)
        checked == WebhooksAfterValidate(s)
        key == BotKeyOf(UserId, WebhookPairConfig.pair_symbol, WebhookPairConfig.exchange)
        dispatch == DispatchOf(WebhookPairConfig, IntentOf(p), adapter)
        success == ~DispatchRaised(dispatch)
    IN  IF reason # ""
        THEN /\ webhooks' = checked
             /\ Answer(s, ip, p, TRUE, FALSE, reason, 401, 0, 0)
             /\ NoTrade
        ELSE IF ~PayloadValid(p)
        THEN /\ webhooks' = checked
             /\ Answer(s, ip, p, TRUE, TRUE, "Invalid payload", 400, 0, 0)
             /\ NoTrade
        ELSE /\ bots' = BotsAfterCreate(key, WebhookPairConfig.exchange)
             /\ constructed' = ConstructedAfterCreate(key, WebhookPairConfig.exchange)
             /\ orders' = Append(orders, OrderAfterDispatch(dispatch, IntentOf(p)))
             /\ ores' = OresOf(Len(orders) + 1, IntentOf(p), dispatch)
             /\ webhooks' = [checked EXCEPT ![s] = RecordTrigger(@, success, ip)]
             /\ Answer(s, ip, p, TRUE, TRUE, "", IF success THEN 200 ELSE 400, 0,
                       IF success THEN Len(orders) + 1 ELSE 0)

\* A POST to /api/custom-bot/webhook/receive/<secret>/.  With the middleware
\* installed, WebhookRateLimitMiddleware.__call__ runs _check_rate_limit for
\* the secret of the path first and answers 429 itself; otherwise, and after
\* the limiter has accepted, get_response reaches the view.
WebhookPost ==
    \E s \in Secrets, ip \in ClientIps, p \in Payloads, adapter \in AdapterOutcomes :
        LET pruned == Prune(CacheGet(s), now)
        IN  /\ posts < MaxPosts
            /\ lock = 0
            /\ IF installed /\ LimitReached(pruned)
               THEN /\ Answer(s, ip, p, FALSE, FALSE, "Rate limit exceeded", 429,
                              WindowSeconds, 0)
                    /\ NoTrade
                    /\ UNCHANGED <<cache, webhooks>>
               ELSE /\ cache' = IF installed THEN CacheSet(s, Append(pruned, now)) ELSE cache
                    /\ ViewPost(s, ip, p, adapter)
            /\ UNCHANGED <<now, hpc, hloc, accepted, raced, lim, installed, ledgerVars, handlerVars,
                           orderOps, dpc, dloc, profile, lock, isRunning, dbSessions,
                           objSessions, botSessions, sessKey, run, pc, frame, ret>>

\* Time passes between requests.
GatewayTick ==
    /\ now < GatewayTicks * TickSeconds
    /\ posts < MaxPosts
    /\ now' = now + TickSeconds
    /\ resp' = NoResp
    /\ ores' = NoOres
    /\ UNCHANGED <<registryVars, ledgerVars, handlerVars, orders, orderOps, dpc, dloc, cache, hpc, hloc,
                   accepted, raced, lim, webhooks, installed, posts>>

\* UserSubscription status and end_date: running, ending early, cancelled.
SubscriptionStates ==
    { <<"active", MaxTime>>, <<"active", TickSeconds>>, <<"cancelled", MaxTime>> }

\* The registrations requests meet: the allow-list on or off, the
\* subscription active, cancelled or ending early, a reset time pending or
\* not; the middleware installed or not.
GatewayInit ==
    /\ RegistryIdle
    /\ LimiterIdle
    /\ OrdersIdle
    /\ LedgerIdle
    /\ HandlersIdle
    /\ \E whitelist \in BOOLEAN, sub \in SubscriptionStates, reset \in {0, TickSeconds} :
          webhooks = [s \in RegisteredSecrets |->
                         WebhookRow(s = "live", whitelist, sub[1], sub[2], reset)]
    /\ installed \in BOOLEAN
    /\ posts = 0
    /\ resp = NoResp

GatewayNext ==
    \/ WebhookPost
    \/ GatewayTick

SpecGateway == GatewayInit /\ [][GatewayNext]_vars

\* ------------------------------------------------------------------ concurrent handlers
\* TradingViewWebhookView.post run by concurrent request threads, and the
\* cancel_subscription view.  A handler works on the CustomBotWebhook
\* instance that validate_webhook_request loaded: check_rate_limit reads and
\* record_trigger increments the fields of that instance, and save() writes
\* every column of it back.  No lock, select_for_update or F() expression
\* stands between the lookup and the save.

\* A cancellation that only ends the renewal.
CancelAtPeriodEnd(status, immediate) == status

\* UserSubscription.cancel_subscription: the status it saves.
CancelledStatus(status, immediate) == IF immediate THEN "cancelled" ELSE status

\* The columns of the UserSubscription row, which the save of a
\* CustomBotWebhook instance does not write.
WithSubscriptionOf(row, stored) ==
    [row EXCEPT !.sub_status = stored.sub_status, !.sub_end = stored.sub_end]

\* post up to the payload check: validate_webhook_request looks the
\* registration up and checks it (check_rate_limit saving its hourly reset),
\* 401 for a rejection; the serializer, 400 for a payload it rejects.  A
\* request that passes both goes on to _execute_trade with the instance.
HandlerValidate(c) ==
    \E s \in Secrets, ip \in ClientIps, p \in Payloads :
        LET reason == ValidateWebhookRequest(s, ip)
            checked == WebhooksAfterValidate(s)
            goesOn == reason = "" /\ PayloadValid(p)
        IN  /\ wpc[c] = "idle"
            /\ posts < MaxPosts
            /\ posts' = posts + 1
            /\ webhooks' = checked
            /\ passed' = (IF checked # webhooks THEN 0 ELSE passed)
                            + (IF goesOn THEN 1 ELSE 0)
            /\ IF goesOn
               THEN /\ wpc' = [wpc EXCEPT ![c] = "trade"]
                    /\ wloc' = [wloc EXCEPT ![c] = [secret |-> s, ip |-> ip, payload |-> p,
                                                    row |-> checked[s]]]
                    /\ resp' = NoResp
               ELSE /\ resp' = [op |-> "post", secret |-> s, ip |-> ip, payload |-> p,
                                validated |-> TRUE, admitted |-> reason = "",
                                reason |-> IF reason = "" THEN "Invalid payload" ELSE reason,
                                code |-> IF reason = "" THEN 400 ELSE 401,
                                retry_after |-> 0, order_id |-> 0]
                    /\ UNCHANGED <<wpc, wloc>>
            /\ ores' = NoOres
            /\ UNCHANGED <<registryVars, limiterVars, ledgerVars, installed, orders, orderOps,
                           dpc, dloc, triggers, cancelled>>

\* post from _execute_trade on: the Order and the exchange call, then
\* record_trigger on the instance loaded at the start and its save().
HandlerRecord(c) ==
    \E adapter \in AdapterOutcomes :
        LET s == wloc[c].secret
            intent == IntentOf(wloc[c].payload)
            key == BotKeyOf(UserId, WebhookPairConfig.pair_symbol, WebhookPairConfig.exchange)
            dispatch == DispatchOf(WebhookPairConfig, intent, adapter)
            success == ~DispatchRaised(dispatch)
        IN  /\ wpc[c] = "trade"
            /\ lock = 0
            /\ bots' = BotsAfterCreate(key, WebhookPairConfig.exchange)
            /\ constructed' = ConstructedAfterCreate(key, WebhookPairConfig.exchange)
            /\ orders' = Append(orders, OrderAfterDispatch(dispatch, intent))
            /\ ores' = OresOf(Len(orders) + 1, intent, dispatch)
            /\ webhooks' = [webhooks EXCEPT ![s] =
                               WithSubscriptionOf(RecordTrigger(wloc[c].row, success, wloc[c].ip), @)]
            /\ triggers' = triggers + 1
            /\ resp' = [op |-> "post", secret |-> s, ip |-> wloc[c].ip,
                        payload |-> wloc[c].payload, validated |-> TRUE, admitted |-> TRUE,
                        reason |-> "", code |-> IF success THEN 200 ELSE 400,
                        retry_after |-> 0,
                        order_id |-> IF success THEN Len(orders) + 1 ELSE 0]
            /\ wpc' = [wpc EXCEPT ![c] = "idle"]
            /\ wloc' = [wloc EXCEPT ![c] = NoLoaded]
            /\ UNCHANGED <<limiterVars, ledgerVars, installed, posts, orderOps, dpc, dloc,
                           passed, cancelled, profile, lock, isRunning, dbSessions,
                           objSessions, botSessions, sessKey, run, pc, frame, ret>>

\* The cancel_subscription view: subscription.cancel_subscription(immediate=
\* True), then every active registration of the subscription is deactivated
\* and saved and stop_bot is called for its pair (no session is running here,
\* so stop_bot only clears is_running of a registered bot).
CancelSubscription ==
    LET key == BotKeyOf(UserId, WebhookPairConfig.pair_symbol, WebhookPairConfig.exchange)
    IN  /\ ~cancelled
        /\ lock = 0
        /\ webhooks' = [s \in DOMAIN webhooks |->
                           [webhooks[s] EXCEPT !.sub_status = CancelledStatus(@, TRUE),
                                               !.is_active = FALSE]]
        /\ isRunning' = IF \E s \in DOMAIN webhooks : webhooks[s].is_active
                        THEN [isRunning EXCEPT ![key] = FALSE]
                        ELSE isRunning
        /\ cancelled' = TRUE
        /\ resp' = NoResp
        /\ ores' = NoOres
        /\ UNCHANGED <<limiterVars, ledgerVars, installed, posts, orders, orderOps, dpc, dloc,
                       wpc, wloc, passed, triggers, profile, lock, bots, constructed,
                       dbSessions, objSessions, botSessions, sessKey, run, pc, frame, ret>>

\* Time passes between the steps of the handlers.
HandlersTick ==
    /\ now < GatewayTicks * TickSeconds
    /\ now' = now + TickSeconds
    /\ resp' = NoResp
    /\ ores' = NoOres
    /\ UNCHANGED <<registryVars, ledgerVars, handlerVars, orders, orderOps, dpc, dloc, cache,
                   hpc, hloc, accepted, raced, lim, webhooks, installed, posts>>

\* The registrations as the gateway meets them, the middleware not installed.
HandlersInit ==
    /\ RegistryIdle
    /\ LimiterIdle
    /\ OrdersIdle
    /\ LedgerIdle
    /\ HandlersIdle
    /\ \E whitelist \in BOOLEAN, sub \in SubscriptionStates, reset \in {0, TickSeconds} :
          webhooks = [s \in RegisteredSecrets |->
                         WebhookRow(s = "live", whitelist, sub[1], sub[2], reset)]
    /\ installed = FALSE
    /\ posts = 0
    /\ resp = NoResp

HandlersNext ==
    \/ \E c \in Callers : HandlerValidate(c)
    \/ \E c \in Callers : HandlerRecord(c)
    \/ CancelSubscription
    \/ HandlersTick

SpecHandlers == HandlersInit /\ [][HandlersNext]_vars

\* execute_webhook_order as TradingViewWebhookView._execute_trade calls it.
\* The order is created, the bot looked up or created, the adapter called
\* (validate_order_params first), and the result passed to execute_order
\* whatever it says; any exception ends in the except branch and is raised
\* again, which _execute_trade turns into success False (HTTP 400).
WebhookOrder ==
    \E cfg \in PairConfigs, intent \in Intents, adapter \in AdapterOutcomes :
        LET key == BotKeyOf(UserId, cfg.pair_symbol, cfg.exchange)
            dispatch == DispatchOf(cfg, intent, adapter)
        IN  /\ lock = 0
            /\ orderOps < MaxOrderOps
            /\ Len(orders) < MaxOrders
            /\ bots' = BotsAfterCreate(key, cfg.exchange)
            /\ constructed' = ConstructedAfterCreate(key, cfg.exchange)
            /\ orders' = Append(orders, OrderAfterDispatch(dispatch, intent))
            /\ orderOps' = orderOps + 1
            /\ ores' = OresOf(Len(orders) + 1, intent, dispatch)
            /\ UNCHANGED <<limiterVars, gatewayVars, ledgerVars, handlerVars, dpc, dloc, profile, lock, isRunning, dbSessions,
                           objSessions, botSessions, sessKey, run, pc, frame, ret>>

\* An Order added through the admin site (OrderAdmin): status 'pending'.
AdminAddOrder ==
    /\ orderOps < MaxOrderOps
    /\ Len(orders) < MaxOrders
    /\ orders' = Append(orders, PendingOrder)
    /\ orderOps' = orderOps + 1
    /\ ores' = [NoOres EXCEPT !.op = "add", !.idx = Len(orders) + 1]
    /\ UNCHANGED <<registryVars, limiterVars, gatewayVars, ledgerVars, handlerVars, dpc, dloc>>

\* Order.execute_order called on a row with a fill.
ExecuteOrder(i) ==
    /\ orderOps < MaxOrderOps
    /\ orders' = [orders EXCEPT ![i] = ExecutedOrder(@, 2, MinOrderSize, 2)]
    /\ orderOps' = orderOps + 1
    /\ ores' = [NoOres EXCEPT !.op = "execute_order", !.idx = i]
    /\ UNCHANGED <<registryVars, limiterVars, gatewayVars, ledgerVars, handlerVars, dpc, dloc>>

\* Order.cancel_order called on a row.
CancelOrder(i) ==
    /\ orderOps < MaxOrderOps
    /\ orders' = [orders EXCEPT ![i] = CancelledOrder(@)]
    /\ orderOps' = orderOps + 1
    /\ ores' = [NoOres EXCEPT !.op = "cancel_order", !.idx = i]
    /\ UNCHANGED <<registryVars, limiterVars, gatewayVars, ledgerVars, handlerVars, dpc, dloc>>

OrdersInit == Init /\ LimiterIdle /\ GatewayIdle /\ OrdersIdle /\ LedgerIdle /\ HandlersIdle

OrdersNext ==
    \/ WebhookOrder
    \/ AdminAddOrder
    \/ \E i \in DOMAIN orders : ExecuteOrder(i)
    \/ \E i \in DOMAIN orders : CancelOrder(i)

SpecOrders == OrdersInit /\ [][OrdersNext]_vars

\* execute_webhook_order called from concurrent request threads.  A call
\* creates its Order and gets or creates the bot; an error of create_bot or of
\* validate_order_params ends it at once in the except branch.  Otherwise the
\* caller enters the exchange call of the adapter (requests.post, up to the
\* timeout) on the bot instance registered for the key.  Nothing in
\* execute_webhook_order is taken per key around this.
DispatchBegin(c) ==
    \E cfg \in PairConfigs, intent \in Intents :
        LET key == BotKeyOf(UserId, cfg.pair_symbol, cfg.exchange)
            dispatch == DispatchOf(cfg, intent, "exchange")
        IN  /\ dpc[c] = "idle"
            /\ lock = 0
            /\ orderOps < MaxOrderOps
            /\ bots' = BotsAfterCreate(key, cfg.exchange)
            /\ constructed' = ConstructedAfterCreate(key, cfg.exchange)
            /\ orderOps' = orderOps + 1
            /\ IF dispatch = "exchange"
               THEN /\ dpc' = [dpc EXCEPT ![c] = "exchange"]
                    /\ dloc' = [dloc EXCEPT ![c] = [cfg |-> cfg, intent |-> intent]]
                    /\ ores' = NoOres
                    /\ UNCHANGED orders
               ELSE /\ orders' = Append(orders, OrderAfterDispatch(dispatch, intent))
                    /\ ores' = OresOf(Len(orders) + 1, intent, dispatch)
                    /\ UNCHANGED <<dpc, dloc>>
            /\ UNCHANGED <<limiterVars, gatewayVars, ledgerVars, handlerVars, profile, lock, isRunning, dbSessions,
                           objSessions, botSessions, sessKey, run, pc, frame, ret>>

\* The exchange call ends (a fill, a failure returned, an exception such as
\* the timeout of a bot that lets it through); the outcome is recorded, the
\* transaction commits or the except branch saves, and the call returns or
\* raises.
DispatchEnd(c) ==
    \E adapter \in AdapterOutcomes :
        /\ dpc[c] = "exchange"
        /\ orders' = Append(orders, OrderAfterDispatch(adapter, dloc[c].intent))
        /\ ores' = OresOf(Len(orders) + 1, dloc[c].intent, adapter)
        /\ dpc' = [dpc EXCEPT ![c] = "idle"]
        /\ dloc' = [dloc EXCEPT ![c] = NoDispatch]
        /\ UNCHANGED <<registryVars, limiterVars, gatewayVars, ledgerVars, handlerVars, orderOps>>

\* The keys of the calls that are between creating their Order and recording
\* its outcome.
InFlight(c) == dpc[c] = "exchange"

DispatchKey(c) == BotKeyOf(UserId, dloc[c].cfg.pair_symbol, dloc[c].cfg.exchange)

DispatchInit == Init /\ LimiterIdle /\ GatewayIdle /\ OrdersIdle /\ LedgerIdle /\ HandlersIdle

DispatchNext ==
    \/ \E c \in Callers : DispatchBegin(c)
    \/ \E c \in Callers : DispatchEnd(c)

SpecDispatch == DispatchInit /\ [][DispatchNext]_vars

\* order.executed_price or order.price; order.executed_quantity or
\* order.quantity.
EffectivePrice(o) == IF o.executed_price # 0 THEN o.executed_price ELSE o.price

EffectiveQuantity(o) == IF o.executed_quantity # 0 THEN o.executed_quantity ELSE o.quantity

\* A match that takes the whole lot, and one that takes the whole sell.
WholeLot(lot_quantity, sell_quantity) == lot_quantity

WholeSell(lot_quantity, sell_quantity) == sell_quantity

\* match_quantity = min(buy_order['quantity'], sell_quantity)
MatchQuantity(lot_quantity, sell_quantity) ==
    IF lot_quantity < sell_quantity THEN lot_quantity ELSE sell_quantity

NoMatches == [queue |-> <<>>, total_profit |-> 0, total_loss |-> 0]

\* The while loop of a sell: the front lot is matched, the result added to
\* total_profit when positive and its absolute value to total_loss otherwise,
\* the lot popped when nothing of it is left.
RECURSIVE MatchSell(_, _, _)
MatchSell(st, sell_quantity, sell_price) ==
    IF st.queue = <<>> \/ sell_quantity <= 0 THEN st
    ELSE LET buy_order == Head(st.queue)
             match_quantity == MatchQuantity(buy_order.quantity, sell_quantity)
             profit_loss == (sell_price - buy_order.price) * match_quantity * HalfUnitCents
             left == buy_order.quantity - match_quantity
         IN  MatchSell(
                 [queue |-> IF left <= 0 THEN Tail(st.queue)
                            ELSE <<[buy_order EXCEPT !.quantity = left]>> \o Tail(st.queue),
                  total_profit |-> IF profit_loss > 0 THEN st.total_profit + profit_loss
                                   ELSE st.total_profit,
                  total_loss |-> IF profit_loss > 0 THEN st.total_loss
                                 ELSE st.total_loss - profit_loss],
                 sell_quantity - match_quantity, sell_price)

\* The for loop over the orders from the i-th on: a buy joins the queue, a
\* sell that meets a non-empty queue is matched, any other order is skipped.
RECURSIVE Fifo(_, _, _)
Fifo(h, i, st) ==
    IF i > Len(h) THEN st
    ELSE IF h[i].action = "buy"
    THEN Fifo(h, i + 1, [st EXCEPT !.queue = Append(@, [price |-> EffectivePrice(h[i]),
                                                       quantity |-> EffectiveQuantity(h[i])])])
    ELSE IF h[i].action = "sell" /\ st.queue # <<>>
    THEN Fifo(h, i + 1, MatchSell(st, EffectiveQuantity(h[i]), EffectivePrice(h[i])))
    ELSE Fifo(h, i + 1, st)

FifoTotals(h) == Fifo(h, 1, NoMatches)

\* (net_profit / initial_investment) * 100, in hundredths of a percent.
ProfitPercentage(net_profit, initial_investment) ==
    IF initial_investment > 0 THEN (net_profit * 10000) \div initial_investment ELSE 0

\* calculate_managed_bot_performance: zeros throughout when there is no
\* executed order or when the computation raises; else the FIFO totals, with
\* the initial investment read from the performance record.
CalculateManagedBotPerformance(h, initial_investment, fails) ==
    IF fails \/ h = <<>>
    THEN [total_profit |-> 0, total_loss |-> 0, net_profit |-> 0,
          profit_percentage |-> 0, current_balance |-> 0]
    ELSE LET st == FifoTotals(h)
             net_profit == st.total_profit - st.total_loss
         IN  [total_profit |-> st.total_profit, total_loss |-> st.total_loss,
              net_profit |-> net_profit,
              profit_percentage |-> ProfitPercentage(net_profit, initial_investment),
              current_balance |-> initial_investment + net_profit]

\* calculate_profit_share, its profit_share_owed: computed on the record as
\* ManagedBotPerformance.objects.get reads it from the database.
CalculateProfitShare(row) == (row.total_profit * ProfitSharePercentage) \div 100

\* round((winning_trades / total_trades) * 100, 2), in hundredths of a percent.
WinRate(winning_trades, total_trades) ==
    (winning_trades * 10000 * 2 + total_trades) \div (2 * total_trades)

\* ManagedBotPerformance.calculate_performance: the computed values are set
\* on the object, calculate_profit_share reads the row still stored, then
\* save().
CalculatePerformance ==
    \E fails \in BOOLEAN :
        LET calculated == CalculateManagedBotPerformance(executedOrders,
                                                         perf.initial_investment, fails)
        IN  /\ ledgerOps < MaxLedgerOps
            /\ perf' = [perf EXCEPT
                          !.total_profit = calculated.total_profit,
                          !.total_loss = calculated.total_loss,
                          !.current_balance = calculated.current_balance,
                          !.net_profit = calculated.net_profit,
                          !.profit_percentage = calculated.profit_percentage,
                          !.profit_share_owed = CalculateProfitShare(perf),
                          !.win_rate = IF perf.total_trades > 0
                                       THEN WinRate(perf.winning_trades, perf.total_trades)
                                       ELSE @]
            /\ ledgerOps' = ledgerOps + 1
            /\ lres' = [op |-> "calculate", action |-> "", failed |-> fails]
            /\ UNCHANGED <<registryVars, limiterVars, gatewayVars, orderVars, handlerVars, executedOrders>>

\* An order of the pair is saved as executed; post_save runs
\* update_performance_on_order and update_managed_bot_performance: for a sell
\* the placeholder result 0 goes to total_loss, the balance and the profit
\* share are set and total_trades counted; save().
UpdatePerformanceOnOrder ==
    \E o \in LedgerOrders :
        /\ Len(executedOrders) < MaxHistory
        /\ executedOrders' = Append(executedOrders, o)
        /\ perf' = IF o.action = "sell"
                   THEN [perf EXCEPT
                            !.current_balance = perf.initial_investment + perf.total_profit
                                                    - perf.total_loss,
                            !.profit_share_owed = CalculateProfitShare(perf),
                            !.total_trades = @ + 1]
                   ELSE perf
        /\ lres' = [op |-> "fill", action |-> o.action, failed |-> FALSE]
        /\ UNCHANGED <<registryVars, limiterVars, gatewayVars, orderVars, handlerVars, ledgerOps>>

\* ManagedBotPerformance.record_trade
RecordTrade ==
    \E profit_loss_amount \in TradeAmounts :
        LET total_profit == IF profit_loss_amount > 0
                            THEN perf.total_profit + profit_loss_amount
                            ELSE perf.total_profit
            total_loss == IF profit_loss_amount > 0 THEN perf.total_loss
                          ELSE perf.total_loss - profit_loss_amount
            winning_trades == IF profit_loss_amount > 0 THEN perf.winning_trades + 1
                              ELSE perf.winning_trades
            net_profit == total_profit - total_loss
        IN  /\ ledgerOps < MaxLedgerOps
            /\ perf' = [perf EXCEPT
                          !.total_trades = @ + 1,
                          !.total_profit = total_profit,
                          !.total_loss = total_loss,
                          !.winning_trades = winning_trades,
                          !.losing_trades = IF profit_loss_amount > 0 THEN @ ELSE @ + 1,
                          !.net_profit = net_profit,
                          !.current_balance = perf.initial_investment + net_profit,
                          !.profit_percentage =
                              IF perf.initial_investment > 0
                              THEN ProfitPercentage(net_profit, perf.initial_investment)
                              ELSE @,
                          !.win_rate = WinRate(winning_trades, perf.total_trades + 1)]
            /\ ledgerOps' = ledgerOps + 1
            /\ lres' = [op |-> "record_trade", action |-> "", failed |-> FALSE]
            /\ UNCHANGED <<registryVars, limiterVars, gatewayVars, orderVars, handlerVars, executedOrders>>

\* A record as created, with some profit share already paid or none.
LedgerInit ==
    /\ RegistryIdle
    /\ LimiterIdle
    /\ GatewayIdle
    /\ OrdersIdle
    /\ HandlersIdle
    /\ executedOrders = <<>>
    /\ \E paid \in {0, 125} : perf = NewPerformance(paid)
    /\ ledgerOps = 0
    /\ lres = NoLres

LedgerNext ==
    \/ CalculatePerformance
    \/ UpdatePerformanceOnOrder
    \/ RecordTrade

SpecLedger == LedgerInit /\ [][LedgerNext]_vars

Next ==
    \/ \E c \in Callers : CreateBot(c)
    \/ \E c \in Callers : ExecuteWebhookOrder(c)
    \/ \E c \in Callers : CreateBotNested(c)
    \/ \E c \in Callers : StartBot(c)
    \/ \E c \in Callers : StartSessionAssign(c)
    \/ \E c \in Callers : StartSessionSave(c)
    \/ \E c \in Callers : StopBot(c)
    \/ \E c \in Callers : StopSessionSave(c)
    \/ \E s \in Sids : RunBegin(s)
    \/ \E s \in Sids : RunExit(s)
    \/ \E s \in Sids : RunRaise(s)

RegistryInit == Init /\ OthersIdle

Spec == RegistryInit /\ [][Next]_vars

\* Scheduling of the run threads: a thread that start_bot started gets to
\* run bot.startBot(), and a loop whose is_running is False gets to read it
\* (the loop sleeps ten seconds between two reads).  An iteration need never
\* raise.
RunThreadsFair ==
    \A s \in 1..MaxSessions :
        /\ WF_vars(s \in Sids /\ RunBegin(s))
        /\ WF_vars(s \in Sids /\ RunExit(s))

SpecFair == Spec /\ RunThreadsFair


\* ------------------------------------------------------------------ claims

\* C1: for every bot key at most one adapter instance is ever constructed,
\* however the create_bot calls of the callers interleave (direct calls, and
\* the calls execute_webhook_order and start_bot make), the registry holds
\* that one instance, and every create_bot call that returns an instance
\* returns the instance the registry holds.
C1_OneInstancePerKey ==
    /\ \A k \in AllKeys : constructed[k] <= 1
    /\ \A k \in DOMAIN bots : constructed[k] = 1 /\ bots[k] = 1
    /\ (ret.op \in {"create_bot", "webhook"} /\ CreateBotOk(ret.outcome))
          => /\ ret.key \in DOMAIN bots
             /\ ret.val = bots[ret.key]

\* C1 witness: a webhook order found no bot, another caller constructed it
\* meanwhile, and the create_bot call of the webhook order returned that
\* existing instance.
C1_Witness ==
    /\ ret.op = "webhook"
    /\ ret.outcome = "existing"
    /\ constructed[ret.key] = 1

\* C2: start_bot for a key without an instance terminates and leaves the
\* lock free: no caller of start_bot ever waits, inside the create_bot it
\* called, for the lock that it holds itself.
C2_StartBotTerminates ==
    \A c \in Callers :
        ~(pc[c] = "create_bot" /\ frame[c].op = "start_bot" /\ lock = c)

NonTerminalSessionsOf(key) ==
    { s \in Sids : sessKey[s] = key /\ dbSessions[s].status \in NonTerminal }

StartReturned(s) ==
    \A c \in Callers : ~(frame[c].op = "start_bot" /\ frame[c].sid = s)

RunningSessionsOf(key) ==
    { s \in Sids : sessKey[s] = key /\ dbSessions[s].status = "running" }

C10_CreateBotFailsOnlyAsDocumented ==
    ret.op = "create_bot" =>
        /\ ret.outcome \in {"existing", "constructed", "CredentialsMissing",
                            "UnsupportedExchange"}
        /\ ret.outcome = "CredentialsMissing"
              => ~CredentialsConfigured(profile, ret.key[3])
        /\ ret.outcome = "UnsupportedExchange" => ret.key[3] \notin EXCHANGE_CHOICES

\* The accepted calls whose current_time lies in the window of W seconds
\* that ends at time t (t excluded from the far end: t - time < W).
AcceptedWithin(t) ==
    { i \in DOMAIN accepted : accepted[i] <= t /\ t - accepted[i] < WindowSeconds }

\* C15: as long as no two limiter calls have overlapped, a call is accepted
\* exactly when fewer than WEBHOOK_RATE_LIMIT accepted calls have their time
\* within the window that ends at the call's current_time.
C15_AcceptedIffWindowHasRoom ==
    [][\A c \in Callers :
          (hpc[c] = "decide" /\ hpc'[c] = "idle" /\ ~raced)
              => (lim'.ok <=> Cardinality(AcceptedWithin(hloc[c].t)) < WEBHOOK_RATE_LIMIT)]_vars

\* C15 witness: calls made one after the other, more accepted than the limit
\* admits in one window (the early ones have left the window), and a
\* rejection seen on the way is the other case.
C15_Witness ==
    /\ ~raced
    /\ lim.op = "check"
    /\ lim.ok
    /\ Len(accepted) > WEBHOOK_RATE_LIMIT

\* C16: a rejected limiter call leaves the cache as it was; an accepted one
\* stores, with expiry now + WindowSeconds, the list it read, pruned, with its
\* own current_time appended once; when no calls overlap and the call takes
\* no time, that is the stored window, pruned, with the current time appended.
C16_RejectKeepsStoreAcceptAppends ==
    [][\A c \in Callers :
          (hpc[c] = "decide" /\ hpc'[c] = "idle")
              => IF lim'.ok
                 THEN /\ Len(cache'[LimiterKey].list) = Len(Prune(hloc[c].requests, hloc[c].t)) + 1
                      /\ cache'[LimiterKey].list[Len(cache'[LimiterKey].list)] = hloc[c].t
                      /\ SubSeq(cache'[LimiterKey].list, 1, Len(cache'[LimiterKey].list) - 1)
                            = Prune(hloc[c].requests, hloc[c].t)
                      /\ (~raced /\ hloc[c].t = now)
                            => cache'[LimiterKey].list
                                  = Append(SelectSeq(CacheGet(LimiterKey),
                                                     LAMBDA r : now - r < WindowSeconds), now)
                      /\ cache'[LimiterKey].expiry = now + WindowSeconds
                      /\ \A k \in Secrets \ {LimiterKey} : cache'[k] = cache[k]
                 ELSE cache' = cache]_vars

\* C16 witness: a call was rejected while the window was full and stored.
C16_Witness ==
    /\ lim.op = "check"
    /\ ~lim.ok
    /\ Len(CacheGet(LimiterKey)) = WEBHOOK_RATE_LIMIT

\* How often time t occurs in a list of times.
Occurrences(times, t) == Cardinality({ i \in DOMAIN times : times[i] = t })

\* C17: however the limiter calls of the handlers interleave, no window of
\* WindowSeconds holds more accepted calls than the limit, and every accepted
\* call still inside the window is in the stored list.
C17_LimiterIsAtomic ==
    /\ \A i \in DOMAIN accepted :
          Cardinality({ j \in DOMAIN accepted :
                           /\ accepted[i] <= accepted[j]
                           /\ accepted[j] - accepted[i] < WindowSeconds }) <= WEBHOOK_RATE_LIMIT
    /\ \A i \in AcceptedWithin(now) :
          Occurrences(CacheGet(LimiterKey), accepted[i])
              >= Cardinality({ j \in AcceptedWithin(now) : accepted[j] = accepted[i] })

\* The count check_rate_limit compares: zero once the reset time has passed.
CountInForce(w) ==
    IF w.rate_limit_reset # 0 /\ now > w.rate_limit_reset THEN 0 ELSE w.rate_limit_count

\* The conditions of admission, in the order of the checks, for the request
\* (s, ip) in the current state.
SecretKnown(s) == s \in DOMAIN webhooks
RegistrationActive(s) == SecretKnown(s) /\ webhooks[s].is_active
UnderRateLimit(s) == RegistrationActive(s) /\ CountInForce(webhooks[s]) < RequestsPerHour
IpAllowed(s, ip) ==
    UnderRateLimit(s) /\ (webhooks[s].allow_ip_whitelist => ip \in AllowedIps)
SubscriptionActive(s, ip) ==
    IpAllowed(s, ip) /\ webhooks[s].sub_status = "active" /\ now <= webhooks[s].sub_end

\* C11: validate_webhook_request admits a request only when, at the time of
\* the check, the secret has a registration, that is active, under its rate
\* limit, the caller IP is allowed when the allow-list is on, and the
\* subscription is currently active; a rejected request carries the reason of
\* the first of these checks, in this order, that fails.
C11_AdmittedOnlyIfAllChecksPass ==
    [][(resp'.op = "post" /\ resp'.validated) =>
          LET s == resp'.secret
              ip == resp'.ip
          IN  /\ resp'.admitted <=> SubscriptionActive(s, ip)
              /\ resp'.reason = "Invalid webhook secret" <=> ~SecretKnown(s)
              /\ resp'.reason = "Webhook is inactive"
                    <=> (SecretKnown(s) /\ ~RegistrationActive(s))
              /\ resp'.reason = "Rate limit exceeded"
                    <=> (RegistrationActive(s) /\ ~UnderRateLimit(s))
              /\ resp'.reason = "IP address not allowed"
                    <=> (UnderRateLimit(s) /\ ~IpAllowed(s, ip))
              /\ resp'.reason = "Subscription not active"
                    <=> (IpAllowed(s, ip) /\ ~SubscriptionActive(s, ip))]_vars

\* C11 witness: a request was admitted for a registration with the allow-list
\* on, after the clock passed the pending reset time of its counters.
C11_Witness ==
    /\ resp.op = "post"
    /\ resp.admitted
    /\ webhooks[resp.secret].allow_ip_whitelist
    /\ now > TickSeconds

\* C12: a request for an inactive registration leaves the rate-limit store
\* (the cached window of its secret) and the registration's rate-limit
\* counters as they were: rate limiting is not evaluated for it.
C12_InactiveLeavesLimiterAlone ==
    [][(/\ resp'.op = "post"
        /\ resp'.secret \in DOMAIN webhooks
        /\ ~webhooks[resp'.secret].is_active)
          => (cache' = cache /\ webhooks' = webhooks)]_vars

\* C13: every rejection is answered with the code of its kind: unknown or
\* inactive secret 401, rate limit exceeded 429 with a retry-after hint, IP
\* not allowed or subscription not active 403.
C13_RejectionCodes ==
    resp.op = "post" =>
        /\ resp.reason \in {"Invalid webhook secret", "Webhook is inactive"}
              => resp.code = 401
        /\ resp.reason = "Rate limit exceeded"
              => (resp.code = 429 /\ resp.retry_after > 0)
        /\ resp.reason \in {"IP address not allowed", "Subscription not active"}
              => resp.code = 403

\* C14: a request whose payload violates the schema is answered 400, whatever
\* the secret, registration, rate limit, IP policy or subscription, and the
\* registration's rate-limit counters stay as they were.
C14_PayloadCheckedFirst ==
    [][(resp'.op = "post" /\ ~PayloadValid(resp'.payload))
          => (resp'.code = 400 /\ webhooks' = webhooks)]_vars

\* C18: an Order's status changes once, from pending to a terminal status;
\* no operation changes the status or the execution fields of an order that
\* is executed, cancelled or failed.
C18_TerminalOrderIsFinal ==
    [][\A i \in DOMAIN orders :
          orders[i].status \in TerminalOrderStatuses => orders'[i] = orders[i]]_vars

C20_InvalidParamsCreateNoOrder ==
    [][(ores'.op = "webhook_order" /\ ValidateOrderParams(ores'.intent) # "")
          => (ores'.raised /\ orders' = orders)]_vars

C22_NoOrderLeftPending ==
    /\ \A i \in DOMAIN orders : orders[i].status \in TerminalOrderStatuses
    /\ ores.op = "webhook_order" => ores.idx \in DOMAIN orders

\* An exchange call that raised (a timeout) has ended with its order failed.
C22_Witness ==
    /\ ores.op = "webhook_order"
    /\ ores.dispatch = "raises"
    /\ orders[ores.idx].status = "failed"

UnitLots(price, n) == [k \in 1..n |-> price]

RECURSIVE RealizedProfit(_, _, _)
RealizedProfit(open, m, sell_price) ==
    IF m = 0 THEN 0
    ELSE (IF sell_price > open[m] THEN (sell_price - open[m]) * HalfUnitCents ELSE 0)
         + RealizedProfit(open, m - 1, sell_price)

RECURSIVE RealizedLoss(_, _, _)
RealizedLoss(open, m, sell_price) ==
    IF m = 0 THEN 0
    ELSE (IF sell_price < open[m] THEN (open[m] - sell_price) * HalfUnitCents ELSE 0)
         + RealizedLoss(open, m - 1, sell_price)

RECURSIVE ReferenceFifo(_, _, _)
ReferenceFifo(h, i, acc) ==
    IF i > Len(h) THEN acc
    ELSE IF h[i].action = "buy"
    THEN ReferenceFifo(h, i + 1,
             [acc EXCEPT !.open = @ \o UnitLots(EffectivePrice(h[i]), EffectiveQuantity(h[i]))])
    ELSE LET q == EffectiveQuantity(h[i])
             m == IF q < Len(acc.open) THEN q ELSE Len(acc.open)
         IN  ReferenceFifo(h, i + 1,
                 [open |-> SubSeq(acc.open, m + 1, Len(acc.open)),
                  total_profit |-> acc.total_profit
                                     + RealizedProfit(acc.open, m, EffectivePrice(h[i])),
                  total_loss |-> acc.total_loss
                                     + RealizedLoss(acc.open, m, EffectivePrice(h[i]))])

ReferenceTotals(h) == ReferenceFifo(h, 1, [open |-> <<>>, total_profit |-> 0, total_loss |-> 0])

\* C25: for every history of executed orders calculate_managed_bot_performance
\* returns the totals of the reference FIFO matching (total_profit,
\* total_loss, their difference as net_profit) and, for a history with an
\* order in it, the initial investment plus net_profit as current_balance.
C25_LedgerIsReferenceFifo ==
    LET calculated == CalculateManagedBotPerformance(executedOrders,
                                                     perf.initial_investment, FALSE)
        reference == ReferenceTotals(executedOrders)
    IN  /\ calculated.total_profit = reference.total_profit
        /\ calculated.total_loss = reference.total_loss
        /\ calculated.net_profit = reference.total_profit - reference.total_loss
        /\ executedOrders # <<>>
              => calculated.current_balance
                    = perf.initial_investment + reference.total_profit - reference.total_loss

\* [buy 1.0@100, buy 1.0@110, sell 1.5@120] on 1000 USDT has been recomputed:
\* total_profit 25, total_loss 0, net_profit 25, current_balance 1025.
C25_Witness ==
    /\ Len(executedOrders) = 3
    /\ \A i \in 1..3 :
          /\ executedOrders[i].action = <<"buy", "buy", "sell">>[i]
          /\ EffectivePrice(executedOrders[i]) = <<100, 110, 120>>[i]
          /\ EffectiveQuantity(executedOrders[i]) = <<2, 2, 3>>[i]
    /\ lres.op = "calculate"
    /\ ~lres.failed
    /\ perf.initial_investment = 100000
    /\ perf.total_profit = 2500
    /\ perf.total_loss = 0
    /\ perf.net_profit = 2500
    /\ perf.current_balance = 102500

\* The quantity left in the open buy lots of a queue.
RECURSIVE OpenQuantity(_)
OpenQuantity(queue) ==
    IF queue = <<>> THEN 0 ELSE Head(queue).quantity + OpenQuantity(Tail(queue))

\* The last executed order is a sell of more than the open lots hold.
OverSell ==
    /\ executedOrders # <<>>
    /\ executedOrders[Len(executedOrders)].action = "sell"
    /\ EffectiveQuantity(executedOrders[Len(executedOrders)])
          > OpenQuantity(FifoTotals(SubSeq(executedOrders, 1, Len(executedOrders) - 1)).queue)

\* C29: a sell of more than the open buy lots hold is matched up to the lots
\* only: the loop ends with the queue empty, the totals are those of a sell
\* of exactly the open quantity (those before the sell when no lot is open),
\* and a buy that follows opens a lot of its full quantity.
C29_OverSellMatchesOpenLotsOnly ==
    OverSell =>
        LET sell == executedOrders[Len(executedOrders)]
            front == SubSeq(executedOrders, 1, Len(executedOrders) - 1)
            before == FifoTotals(front)
            open == OpenQuantity(before.queue)
            after == FifoTotals(executedOrders)
            exact == IF open = 0 THEN before
                     ELSE FifoTotals(Append(front, [sell EXCEPT !.executed_quantity = open]))
        IN  /\ after.queue = <<>>
            /\ after.total_profit = exact.total_profit
            /\ after.total_loss = exact.total_loss
            /\ \A b \in LedgerOrders :
                  b.action = "buy" =>
                     LET next == FifoTotals(Append(executedOrders, b))
                     IN  /\ next.queue = <<[price |-> EffectivePrice(b),
                                            quantity |-> EffectiveQuantity(b)]>>
                         /\ next.total_profit = after.total_profit
                         /\ next.total_loss = after.total_loss

\* A sell of 2.5 units has met open lots of less and has been recomputed.
C29_Witness ==
    /\ OverSell
    /\ OpenQuantity(FifoTotals(SubSeq(executedOrders, 1, Len(executedOrders) - 1)).queue) > 0
    /\ lres.op = "calculate"
    /\ ~lres.failed
    /\ perf.total_profit + perf.total_loss > 0

\* C26: recomputing is idempotent: a second calculate_performance right
\* after a first one, on the same order history, leaves the record with the
\* values it had (total_profit, total_loss, net_profit, current_balance,
\* profit_percentage, profit_share_owed).
C26_RecomputeIsIdempotent ==
    [][(lres.op = "calculate" /\ ~lres.failed /\ lres'.op = "calculate" /\ ~lres'.failed)
          => /\ perf'.total_profit = perf.total_profit
             /\ perf'.total_loss = perf.total_loss
             /\ perf'.net_profit = perf.net_profit
             /\ perf'.current_balance = perf.current_balance
             /\ perf'.profit_percentage = perf.profit_percentage
             /\ perf'.profit_share_owed = perf.profit_share_owed]_vars

\* C27: the stored record always has
\* current_balance = initial_investment + total_profit - total_loss.
C27_BalanceIsInvestmentPlusNet ==
    perf.current_balance = perf.initial_investment + perf.total_profit - perf.total_loss

\* C28: after a recomputation profit_share_owed is the newly computed
\* total_profit * profit_share_percentage / 100, whatever was paid.
C28_ShareOwedFollowsNewProfit ==
    (lres.op = "calculate" /\ ~lres.failed)
        => perf.profit_share_owed = (perf.total_profit * ProfitSharePercentage) \div 100

\* C30: recording an executed sell raises total_trades by 1 and exactly one
\* of winning_trades and losing_trades by 1, so that
\* winning_trades + losing_trades = total_trades after every fill.
C30_SellCountsAsOneTrade ==
    [][(lres'.op = "fill" /\ lres'.action = "sell")
          => /\ perf'.total_trades = perf.total_trades + 1
             /\ perf'.winning_trades + perf'.losing_trades
                   = perf.winning_trades + perf.losing_trades + 1
             /\ perf'.winning_trades >= perf.winning_trades
             /\ perf'.losing_trades >= perf.losing_trades
             /\ perf'.winning_trades + perf'.losing_trades = perf'.total_trades]_vars

\* C31: when the run loop of one bot key raises, the registry entries, the
\* bot instances with their running flag and the sessions of every other key
\* are unchanged, and the failure neither takes the registry lock nor ends or
\* blocks a registry call in progress.
C31_LoopFailureTouchesOwnKeyOnly ==
    [][\A s \in DOMAIN run :
          (run[s] = "loop" /\ run'[s] = "failed") =>
              /\ \A k \in AllKeys \ {sessKey[s]} :
                    /\ isRunning'[k] = isRunning[k]
                    /\ (k \in DOMAIN bots') = (k \in DOMAIN bots)
                    /\ k \in DOMAIN bots => bots'[k] = bots[k]
              /\ \A s2 \in Sids :
                    sessKey[s2] # sessKey[s] =>
                        /\ dbSessions'[s2] = dbSessions[s2]
                        /\ objSessions'[s2] = objSessions[s2]
              /\ botSessions' = botSessions
              /\ lock' = lock
              /\ pc' = pc]_vars

\* A loop has failed while the bot of another key is running its session.
C31_Witness ==
    \E s, s2 \in Sids :
        /\ run[s] = "failed"
        /\ dbSessions[s].status = "error"
        /\ sessKey[s2] # sessKey[s]
        /\ run[s2] = "loop"
        /\ isRunning[sessKey[s2]]
        /\ dbSessions[s2].status = "running"

\* stop_bot has just returned for the key, having found its bot.
StopReturned(k) == ret.op = "stop_bot" /\ ret.key = k /\ ret.outcome = "stopped"

\* A start_bot call for the key is in progress.
StartIssued(k) == \E c \in Callers : frame[c].op = "start_bot" /\ frame[c].key = k

\* No run thread of the key is waiting to run or in its loop.
LoopsExited(k) == \A s \in Sids : sessKey[s] = k => run[s] \in {"returned", "failed"}

C35_FailedCreateLeavesRegistry ==
    [][(ret'.op \in {"create_bot", "webhook"} /\ ret'.outcome # "none"
            /\ ~CreateBotOk(ret'.outcome))
          => /\ bots' = bots
             /\ lock' = 0
             /\ ret'.key \notin DOMAIN bots']_vars

\* A create_bot call has failed and left no bot under its key.
C35_Witness ==
    /\ ret.op = "create_bot"
    /\ ret.outcome \in {"CredentialsMissing", "UnsupportedExchange", "TypeError"}
    /\ ~BotExists(ret.key)
    /\ lock = 0

\* C36: between two resets of the hourly window by check_rate_limit, no more
\* than webhook_requests_per_hour requests of the registration get past
\* validate_webhook_request and the payload check to the trade, however the
\* handlers interleave.
C36_AdmittedWithinHourlyLimit == passed <= RequestsPerHour

\* C37: every completed record_trigger shows in the stored counters:
\* total_triggers equals the number of calls, and so does rate_limit_count
\* as long as the hour has not been reset.
C37_NoTriggerLost ==
    /\ webhooks["live"].total_triggers = triggers
    /\ now <= TickSeconds => webhooks["live"].rate_limit_count = triggers

=============================================================================
